---- MODULE Spec2Model ----
(***************************************************************************)
(* Model of script/reward_rate.py: the interactive reward-rate calculator. *)
(*                                                                         *)
(* Python integers are unbounded and Python floats are IEEE-754 binary64.  *)
(* Both are modelled exactly:                                              *)
(*   - a natural number is the sequence of its decimal digits, most        *)
(*     significant first, without leading zeros (zero is <<0>>);           *)
(*   - an int is a record [neg, mag];                                      *)
(*   - a float is a record [kind, neg, m, e]: kind "fin" stands for        *)
(*     (-1)^neg * m * 2^e with m odd (or m = 0, e = 0), kinds "inf" and    *)
(*     "nan" for the non-finite values.  Every float operation rounds to   *)
(*     53 significant bits, ties to even, as the hardware does.            *)
(*   - a str is the sequence of its characters.                            *)
(***************************************************************************)
EXTENDS Integers, Sequences, FiniteSets

(***************************************************************************)
(* Unbounded naturals (the magnitude of a Python int).  The digit loops    *)
(* split their range in two halves, so their nesting stays logarithmic.    *)
(***************************************************************************)
BigZero == <<0>>
BigOne == <<1>>

\* the digits without leading zeros
BigNorm(d) ==
  IF \A i \in 1..Len(d) : d[i] = 0 THEN BigZero
  ELSE SubSeq(d, CHOOSE i \in 1..Len(d) : d[i] # 0 /\ \A j \in 1..(i - 1) : d[j] = 0, Len(d))

BigIsZero(a) == a = BigZero

BigLt(a, b) ==
  IF Len(a) # Len(b) THEN Len(a) < Len(b)
  ELSE \E i \in 1..Len(a) : a[i] < b[i] /\ \A j \in 1..(i - 1) : a[j] = b[j]

BigLe(a, b) == a = b \/ BigLt(a, b)

BigIsOdd(a) == a[Len(a)] % 2 = 1

\* a * 10^k
BigTimesPow10(a, k) == IF BigIsZero(a) THEN a ELSE a \o [j \in 1..k |-> 0]

\* the digits of a small (machine) integer
RECURSIVE SmallDigits(_)
SmallDigits(n) == IF n < 10 THEN <<n>> ELSE Append(SmallDigits(n \div 10), n % 10)

\* the small integer of a natural number known to be below 2 * 10^8
RECURSIVE SmallValueFrom(_, _, _)
SmallValueFrom(a, i, acc) ==
  IF i > Len(a) THEN acc ELSE SmallValueFrom(a, i + 1, acc * 10 + a[i])

BigToSmall(a) == SmallValueFrom(a, 1, 0)

Reverse(s) == [i \in 1..Len(s) |-> s[Len(s) + 1 - i]]

\* Digits lo..hi of a * k + c, least significant first, and the carry out of them
\* (k <= 2^27, c <= k): the right half first, its carry into the left half.
MulLeaf(v) == [d |-> <<v % 10>>, c |-> v \div 10]

MulJoin(right, left) == [d |-> right.d \o left.d, c |-> left.c]

RECURSIVE MulBlock(_, _, _, _, _)
RECURSIVE MulLeft(_, _, _, _, _)
MulBlock(a, lo, hi, k, c) ==
  IF lo = hi THEN MulLeaf(a[lo] * k + c)
  ELSE MulLeft(a, lo, (lo + hi) \div 2, k, MulBlock(a, (lo + hi) \div 2 + 1, hi, k, c))

MulLeft(a, lo, mid, k, right) == MulJoin(right, MulBlock(a, lo, mid, k, right.c))

CarryDigits(r) == BigNorm(SmallDigits(r.c) \o Reverse(r.d))

\* a * k + c for small naturals k and c
BigMulAddSmall(a, k, c) == CarryDigits(MulBlock(a, 1, Len(a), k, c))

BigMulSmall(a, k) == BigMulAddSmall(a, k, 0)

BigAddSmall(a, c) == BigMulAddSmall(a, 1, c)

\* digit of a counted from the least significant end (0 beyond the top)
DigitFromEnd(a, j) == IF j <= Len(a) THEN a[Len(a) + 1 - j] ELSE 0

\* a + b: the carry into a place is decided by the places below it
BigAdd(a, b) ==
  LET n == (IF Len(a) > Len(b) THEN Len(a) ELSE Len(b)) + 1
      sum(j) == DigitFromEnd(a, j) + DigitFromEnd(b, j)
      carry(j) == \E i \in 1..(j - 1) :
                    sum(i) >= 10 /\ \A l \in (i + 1)..(j - 1) : sum(l) = 9
  IN  BigNorm([p \in 1..n |-> (sum(n + 1 - p) + (IF carry(n + 1 - p) THEN 1 ELSE 0)) % 10])

\* a times the number the digits lo..hi of b write
RECURSIVE MulDigits(_, _, _, _)
MulDigits(a, b, lo, hi) ==
  IF lo = hi THEN BigMulSmall(a, b[lo])
  ELSE BigAdd(BigTimesPow10(MulDigits(a, b, lo, (lo + hi) \div 2), hi - (lo + hi) \div 2),
              MulDigits(a, b, (lo + hi) \div 2 + 1, hi))

BigMul(a, b) == MulDigits(a, b, 1, Len(b))

\* Short division of the digits lo..hi of a by d, entered with remainder r
\* (d < 2 * 10^8): the left half first, its remainder into the right half.
DivLeaf(v, d) == [q |-> <<v \div d>>, r |-> v % d]

DivJoin(left, right) == [q |-> left.q \o right.q, r |-> right.r]

RECURSIVE DivBlock(_, _, _, _, _)
RECURSIVE DivRight(_, _, _, _, _)
DivBlock(a, lo, hi, d, r) ==
  IF lo = hi THEN DivLeaf(r * 10 + a[lo], d)
  ELSE DivRight(a, (lo + hi) \div 2 + 1, hi, d, DivBlock(a, lo, (lo + hi) \div 2, d, r))

DivRight(a, lo, hi, d, left) == DivJoin(left, DivBlock(a, lo, hi, d, left.r))

NormQuotient(st) == [q |-> BigNorm(st.q), r |-> st.r]

\* quotient and remainder of a by a small positive d
BigDivModSmall(a, d) == NormQuotient(DivBlock(a, 1, Len(a), d, 0))

\* the widest shift one short multiplication or division takes
SHIFT_STEP == 27

\* a * 2^k
RECURSIVE BigShiftLeft(_, _)
BigShiftLeft(a, k) ==
  IF k <= SHIFT_STEP THEN BigMulSmall(a, 2 ^ k)
  ELSE BigShiftLeft(BigShiftLeft(a, k \div 2), k - k \div 2)

\* floor(a / 2^k), with whether any 1 bit was shifted out
ShiftedOut(dm) == [q |-> dm.q, lost |-> dm.r # 0]

OrLost(rest, lost) == [q |-> rest.q, lost |-> lost \/ rest.lost]

RECURSIVE BigShiftRight(_, _)
RECURSIVE ShiftRest(_, _)
BigShiftRight(a, k) ==
  IF k <= SHIFT_STEP THEN ShiftedOut(BigDivModSmall(a, 2 ^ k))
  ELSE ShiftRest(BigShiftRight(a, k \div 2), k - k \div 2)

ShiftRest(half, k) ==
  IF BigIsZero(half.q) THEN half ELSE OrLost(BigShiftRight(half.q, k), half.lost)

\* number of significant bits of a (0 for zero)
SmallBitLen(n) == CHOOSE b \in 0..30 : n < 2 ^ b /\ (b = 0 \/ 2 ^ (b - 1) <= n)

RECURSIVE BitLen(_)
BitLen(a) ==
  IF Len(a) <= 9 THEN SmallBitLen(BigToSmall(a))
  ELSE 3 * (Len(a) - 9) + BitLen(BigShiftRight(a, 3 * (Len(a) - 9)).q)

(***************************************************************************)
(* Python int: sign and magnitude.                                         *)
(***************************************************************************)
MkInt(neg, mag) == [neg |-> neg /\ ~BigIsZero(mag), mag |-> mag]

\* a // b for an int a and a small positive b: the floor of the quotient
FloorQuotient(neg, dm) ==
  IF ~neg THEN MkInt(FALSE, dm.q)
  ELSE IF dm.r = 0 THEN MkInt(TRUE, dm.q)
  ELSE MkInt(TRUE, BigAddSmall(dm.q, 1))

\* a quotient rounded up, and one truncated toward zero, in the place of the floor
CeilQuotient(neg, dm) ==
  IF neg THEN MkInt(TRUE, dm.q)
  ELSE IF dm.r = 0 THEN MkInt(FALSE, dm.q)
  ELSE MkInt(FALSE, BigAddSmall(dm.q, 1))

IntCeilDivSmall(a, b) == CeilQuotient(a.neg, BigDivModSmall(a.mag, b))

IntTruncDivSmall(a, b) == MkInt(a.neg, BigDivModSmall(a.mag, b).q)

IntFloorDivSmall(a, b) == FloorQuotient(a.neg, BigDivModSmall(a.mag, b))

(***************************************************************************)
(* Python float: IEEE-754 binary64.                                        *)
(***************************************************************************)
MANT_DIG == 53
MAX_EXP == 1024
MIN_SUB_EXP == -1074

FloatNaN == [kind |-> "nan", neg |-> FALSE, m |-> BigZero, e |-> 0]
FloatInf(neg) == [kind |-> "inf", neg |-> neg, m |-> BigZero, e |-> 0]
FloatZero(neg) == [kind |-> "fin", neg |-> neg, m |-> BigZero, e |-> 0]

IsNaN(x) == x.kind = "nan"
IsInf(x) == x.kind = "inf"
IsFinite(x) == x.kind = "fin"
FloatIsZero(x) == x.kind = "fin" /\ BigIsZero(x.m)

\* m * 2^e with the trailing zero bits of m moved into e (m # 0)
TrailingZeros(r) ==
  IF r = 0 THEN SHIFT_STEP
  ELSE CHOOSE t \in 0..(SHIFT_STEP - 1) : r % (2 ^ t) = 0 /\ r % (2 ^ (t + 1)) # 0

RECURSIVE OddMantissa(_, _)
RECURSIVE OddShift(_, _, _)
RECURSIVE OddNext(_, _, _)
OddMantissa(m, e) == OddShift(m, e, TrailingZeros(BigDivModSmall(m, 2 ^ SHIFT_STEP).r))

OddShift(m, e, t) == OddNext(BigDivModSmall(m, 2 ^ t).q, e + t, t)

OddNext(q, e, t) == IF t < SHIFT_STEP THEN [m |-> q, e |-> e] ELSE OddMantissa(q, e)

FinFloat(neg, c) == [kind |-> "fin", neg |-> neg, m |-> c.m, e |-> c.e]

\* the float of the exactly representable (-1)^neg * m * 2^e, or the infinity past the range
FloatOf(neg, m, e) ==
  IF BigIsZero(m) THEN FloatZero(neg)
  ELSE IF BitLen(m) + e > MAX_EXP THEN FloatInf(neg)
  ELSE FinFloat(neg, OddMantissa(m, e))

\* Round to nearest, ties to even: the float nearest to (-1)^neg * (n + f) * 2^e, where
\* 0 <= f < 1 and sticky says f > 0.  A sticky n has at least MANT_DIG + 2 bits.
\* The bits to drop: down to MANT_DIG of them, and no unit below 2^MIN_SUB_EXP.
DropBits(bits, e) ==
  IF bits - MANT_DIG > MIN_SUB_EXP - e THEN bits - MANT_DIG ELSE MIN_SUB_EXP - e

\* dm: the kept bits (q) and the first dropped bit (r); below: a 1 among the other dropped bits
RoundKept(neg, dm, below, e) ==
  FloatOf(neg,
          IF dm.r = 1 /\ (below \/ BigIsOdd(dm.q)) THEN BigAddSmall(dm.q, 1) ELSE dm.q,
          e)

RoundHalf(neg, hi, sticky, e) == RoundKept(neg, BigDivModSmall(hi.q, 2), hi.lost \/ sticky, e)

RoundDrop(neg, n, e, sticky, drop) ==
  IF drop <= 0 THEN FloatOf(neg, n, e)
  ELSE RoundHalf(neg, BigShiftRight(n, drop - 1), sticky, e + drop)

RoundToFloat(neg, n, e, sticky) == RoundDrop(neg, n, e, sticky, DropBits(BitLen(n), e))

\* float(i) of an int i: PyLong_AsDouble rounds to nearest even
IntToFloat(i) == RoundToFloat(i.neg, i.mag, 0, FALSE)

\* x * y
FloatMul(x, y) ==
  IF IsNaN(x) \/ IsNaN(y) THEN FloatNaN
  ELSE IF (IsInf(x) /\ FloatIsZero(y)) \/ (FloatIsZero(x) /\ IsInf(y)) THEN FloatNaN
  ELSE IF IsInf(x) \/ IsInf(y) THEN FloatInf(x.neg # y.neg)
  ELSE RoundToFloat(x.neg # y.neg, BigMul(x.m, y.m), x.e + y.e, FALSE)

\* x / y for a finite non-zero y whose odd mantissa is small (below 2 * 10^8), as 100.0 is
RoundQuotient(neg, dm, e) == RoundToFloat(neg, dm.q, e, dm.r # 0)

DivShifted(x, y, s) ==
  RoundQuotient(x.neg # y.neg, BigDivModSmall(BigShiftLeft(x.m, s), BigToSmall(y.m)),
                x.e - y.e - s)

FloatDiv(x, y) ==
  IF IsNaN(x) THEN FloatNaN
  ELSE IF IsInf(x) THEN FloatInf(x.neg # y.neg)
  ELSE IF FloatIsZero(x) THEN FloatZero(x.neg # y.neg)
  ELSE DivShifted(x, y, BitLen(y.m) + MANT_DIG + 2)

\* math.floor(x) in the place of int(x)
FlooredMagnitude(neg, sh) ==
  MkInt(neg, IF neg /\ sh.lost THEN BigAddSmall(sh.q, 1) ELSE sh.q)

FloatToIntFloor(x) ==
  IF IsNaN(x) THEN [err |-> "ValueError", val |-> MkInt(FALSE, BigZero)]
  ELSE IF IsInf(x) THEN [err |-> "OverflowError", val |-> MkInt(FALSE, BigZero)]
  ELSE IF x.e >= 0 THEN [err |-> "none", val |-> MkInt(x.neg, BigShiftLeft(x.m, x.e))]
  ELSE [err |-> "none", val |-> FlooredMagnitude(x.neg, BigShiftRight(x.m, -x.e))]

\* a conversion that turns infinity and NaN into 0 in the place of raising
FloatToIntLenient(x) ==
  IF ~IsFinite(x) THEN [err |-> "none", val |-> MkInt(FALSE, BigZero)]
  ELSE IF x.e >= 0 THEN [err |-> "none", val |-> MkInt(x.neg, BigShiftLeft(x.m, x.e))]
  ELSE [err |-> "none", val |-> MkInt(x.neg, BigShiftRight(x.m, -x.e).q)]

\* int(x): truncation toward zero; a record with the exception it raises, if any
FloatToInt(x) ==
  IF IsNaN(x) THEN [err |-> "ValueError", val |-> MkInt(FALSE, BigZero)]
  ELSE IF IsInf(x) THEN [err |-> "OverflowError", val |-> MkInt(FALSE, BigZero)]
  ELSE IF x.e >= 0 THEN [err |-> "none", val |-> MkInt(x.neg, BigShiftLeft(x.m, x.e))]
  ELSE [err |-> "none", val |-> MkInt(x.neg, BigShiftRight(x.m, -x.e).q)]

(***************************************************************************)
(* Python str: a sequence of one-character strings.                        *)
(***************************************************************************)
DigitChars == <<"0", "1", "2", "3", "4", "5", "6", "7", "8", "9">>

IsDigit(c) == \E d \in 1..10 : DigitChars[d] = c
DigitValue(c) == (CHOOSE d \in 1..10 : DigitChars[d] = c) - 1

\* the whitespace str.strip() and float() skip (of the characters the responses use)
IsSpace(c) == c \in {" ", "\t"}

\* the first and the last index of s that holds no whitespace (past the ends if none)
FirstNonSpace(s) ==
  IF \A i \in 1..Len(s) : IsSpace(s[i]) THEN Len(s) + 1
  ELSE CHOOSE i \in 1..Len(s) : ~IsSpace(s[i]) /\ \A j \in 1..(i - 1) : IsSpace(s[j])

LastNonSpace(s) ==
  IF \A i \in 1..Len(s) : IsSpace(s[i]) THEN 0
  ELSE CHOOSE i \in 1..Len(s) : ~IsSpace(s[i]) /\ \A j \in (i + 1)..Len(s) : IsSpace(s[j])

Slice(s, i, j) == IF i > j THEN <<>> ELSE SubSeq(s, i, j)

\* s.strip()
Strip(s) == Slice(s, FirstNonSpace(s), LastNonSpace(s))

\* s.endswith(c) for a one-character c
EndsWith(s, c) == Len(s) > 0 /\ s[Len(s)] = c

\* s[:-1]
DropLast(s) == Slice(s, 1, Len(s) - 1)

\* str(i) of an int
IntStr(i) ==
  (IF i.neg THEN <<"-">> ELSE <<>>) \o [j \in 1..Len(i.mag) |-> DigitChars[i.mag[j] + 1]]

(***************************************************************************)
(* float(s) of a str: [sign] (inf | infinity | nan | decimal [exponent]),  *)
(* surrounded by optional whitespace, correctly rounded.                   *)
(***************************************************************************)
ParseError == [kind |-> "err", neg |-> FALSE, m |-> BigZero, e |-> 0]

\* the index after the run of digits of s that starts at i
DigitsEnd(s, i) ==
  CHOOSE k \in i..(Len(s) + 1) :
    /\ \A j \in i..(k - 1) : IsDigit(s[j])
    /\ (k = Len(s) + 1 \/ ~IsDigit(s[k]))

\* the natural number a run of digit characters writes (zero for the empty run)
DigitsValue(s) == BigNorm([j \in 1..Len(s) |-> DigitValue(s[j])])

\* p = d * 2^(4k + MANT_DIG + 2): the quotient of p by 10^k, rounded
RoundScaled(neg, p, k) ==
  RoundToFloat(neg, BigNorm(Slice(p, 1, Len(p) - k)), -(4 * k + MANT_DIG + 2),
               \E j \in (Len(p) - k + 1)..Len(p) : p[j] # 0)

\* the float nearest to (-1)^neg * d * 10^x
DecimalToFloat(neg, d, x) ==
  IF BigIsZero(d) THEN FloatZero(neg)
  ELSE IF x >= 0 THEN RoundToFloat(neg, BigTimesPow10(d, x), 0, FALSE)
  ELSE RoundScaled(neg, BigShiftLeft(d, 4 * (-x) + MANT_DIG + 2), -x)

\* the exponent part of b from index i on: nothing, or e [sign] digits
NoExponent == [ok |-> FALSE, exp |-> 0]

ExponentDigits(b, i, neg) ==
  IF i > Len(b) \/ \E j \in i..Len(b) : ~IsDigit(b[j]) THEN NoExponent
  ELSE [ok |-> TRUE,
        exp |-> (IF neg THEN -1 ELSE 1) * BigToSmall(DigitsValue(SubSeq(b, i, Len(b))))]

ExponentOf(b, i) ==
  IF i = Len(b) + 1 THEN [ok |-> TRUE, exp |-> 0]
  ELSE IF b[i] \notin {"e", "E"} THEN NoExponent
  ELSE IF i + 1 <= Len(b) /\ b[i + 1] \in {"+", "-"}
    THEN ExponentDigits(b, i + 2, b[i + 1] = "-")
    ELSE ExponentDigits(b, i + 1, FALSE)

\* the decimal part of float(s): digits [. digits] [exponent]
ScaledDecimal(neg, digits, fraclen, x) ==
  IF Len(digits) = 0 \/ ~x.ok THEN ParseError
  ELSE DecimalToFloat(neg, DigitsValue(digits), x.exp - fraclen)

ParseFraction(neg, b, i1, i2) ==
  ScaledDecimal(neg, Slice(b, 1, i1 - 1) \o Slice(b, i1 + 1, i2 - 1),
                IF i2 > i1 THEN i2 - i1 - 1 ELSE 0, ExponentOf(b, i2))

ParseWhole(neg, b, i1) ==
  ParseFraction(neg, b, i1, IF i1 <= Len(b) /\ b[i1] = "." THEN DigitsEnd(b, i1 + 1) ELSE i1)

ParseDecimal(neg, b) == ParseWhole(neg, b, DigitsEnd(b, 1))

ParseBody(neg, b) ==
  IF b \in {<<"i", "n", "f">>,
            <<"i", "n", "f", "i", "n", "i", "t", "y">>} THEN FloatInf(neg)
  ELSE IF b = <<"n", "a", "n">> THEN FloatNaN
  ELSE ParseDecimal(neg, b)

ParseSigned(t) ==
  ParseBody(Len(t) > 0 /\ t[1] = "-",
            IF Len(t) > 0 /\ t[1] \in {"+", "-"} THEN Slice(t, 2, Len(t)) ELSE t)

\* float(s)
PyFloat(s) == ParseSigned(Strip(s))

(***************************************************************************)
(* The program.                                                            *)
(***************************************************************************)
SECONDS_PER_YEAR == 31536000

\* a conversion to gwei: 10**9 in the place of 10**18
GweiPerEth == MkInt(FALSE, BigTimesPow10(BigOne, 9))

\* 10**18, an int
WEI_PER_ETH == MkInt(FALSE, BigTimesPow10(BigOne, 18))

\* the literal 100.0
Hundred == FloatOf(FALSE, <<1, 0, 0>>, 0)

\* lines 6-8 of parse_percent: strip, and strip again without a trailing "%"
PercentText(s1) == IF EndsWith(s1, "%") THEN Strip(DropLast(s1)) ELSE s1

\* a parse failure swallowed and read as 0 percent
PercentOrZero(x) == IF x.kind = "err" THEN FloatZero(FALSE) ELSE FloatDiv(x, Hundred)

\* line 9: float(s) / 100.0, where a ValueError of float(s) propagates
PercentOf(x) == IF x.kind = "err" THEN ParseError ELSE FloatDiv(x, Hundred)

\* parse_percent without the strip() of line 6: a "%" followed by blanks is not seen
ParsePercentUnstripped(s) == PercentOf(PyFloat(PercentText(s)))

\* parse_percent(s): a float, or ParseError when it raises ValueError
parse_percent(s) == PercentOf(PyFloat(PercentText(Strip(s))))

\* float * int and int * float: the int is converted, then the floats are multiplied
FloatTimesInt(x, i) == FloatMul(x, IntToFloat(i))
IntTimesFloat(i, x) == FloatMul(IntToFloat(i), x)

\* the prompts of the two input() calls
TVL_PROMPT == "expected ETH TVL: "
APY_PROMPT == "APY (e.g. 8 or 8%): "

\* the str literals of the four print() calls
TVL_LABEL == <<"t", "v", "l", "_", "w", "e", "i", ":">>
ANNUAL_LABEL == <<"a", "n", "n", "u", "a", "l", "_", "r", "e", "w", "a", "r", "d", "s", "_", "w", "e", "i", ":">>
RATE_LABEL == <<"r", "e", "w", "a", "r", "d", "R", "a", "t", "e", " ", "(", "w", "e", "i", "/", "s", "e", "c", ")", ":">>
ADDPOOL_OPEN == <<"a", "d", "d", "P", "o", "o", "l", "(", "a", "d", "d", "r", "e", "s", "s", "(", "0", ")", ",">>
ADDPOOL_CLOSE == <<")">>

\* the line print(*args) writes: the args joined by the separator " "
RECURSIVE JoinFrom(_, _)
JoinFrom(args, i) ==
  IF i > Len(args) THEN <<>> ELSE <<" ">> \o args[i] \o JoinFrom(args, i + 1)

PrintedLine(args) == IF Len(args) = 0 THEN <<>> ELSE args[1] \o JoinFrom(args, 2)

\* a local not assigned yet
NoFloat == [kind |-> "unset", neg |-> FALSE, m |-> BigZero, e |-> 0]
NoInt == [neg |-> FALSE, mag |-> <<>>]

(***************************************************************************)
(* The responses typed at the two prompts.                                 *)
(***************************************************************************)
MaxPad == 1     \* the longest run of blanks put around a percentage

Blanks(n) == [j \in 1..n |-> " "]

\* responses to the TVL prompt
TvlResponses ==
  { <<"1", "0", "0", "0", ".", "0">>,
    <<"0", ".", "0">>,
    <<"-", "1", "0", "0", "0", ".", "0">>,
    <<"1", ".", "5", "e", "-", "1", "8">>,
    <<"-", "1", ".", "5", "e", "-", "1", "8">>,
    <<"2", ".", "5", "e", "-", "1", "8">>,
    <<"3", ".", "7", "e", "-", "1", "8">>,
    <<"-", "3", ".", "7", "e", "-", "1", "8">>,
    <<"-", "1", "e", "-", "1", "7">>,
    <<"-", "1", "e", "-", "1", "9">>,
    <<"i", "n", "f">>,
    <<"-", "i", "n", "f">>,
    <<"n", "a", "n">>,
    <<"1", "e", "3", "0", "0">>,
    <<"a", "b", "c">>,
    <<>>,
    <<" ", "7", " ">> }

\* a percentage typed with and without "%" and with blanks around it
Decorated(n) ==
  { Blanks(l) \o n \o Blanks(r) : l \in 0..MaxPad, r \in 0..MaxPad }
    \cup { Blanks(l) \o n \o Blanks(m) \o <<"%">> \o Blanks(r) :
             l \in 0..MaxPad, m \in 0..MaxPad, r \in 0..MaxPad }

\* responses to the APY prompt that float() rejects
BadPercents ==
  { <<"a", "b", "c">>,
    <<>>,
    <<"%">>,
    <<"8", "%", "%">>,
    <<"%", "8">>,
    <<"8", " ", "8">> }

\* responses to the APY prompt
ApyResponses ==
  Decorated(<<"8">>)
    \cup { <<" ", " ", "8", " ", "%", " ">>,
           <<"1", "2", ".", "5">>,
           <<"1", "2", ".", "5", "%">>,
           <<"1", "0", "0">>,
           <<"0">>,
           <<"-", "5", "%">>,
           <<"i", "n", "f">>,
           <<"n", "a", "n", "%">>,
           <<"1", "e", "4", "0", "0">>,
           <<"1", "e", "3", "0", "0">> }
    \cup BadPercents

VARIABLES
  pc,                       \* the line of main() about to run, "return" or "exit"
  prompts,                  \* the prompts input() wrote so far, in order
  responses,                \* the lines read from stdin so far, in order
  tvl_eth,                  \* main's locals, NoFloat / NoInt until assigned
  apy,
  tvl_wei,
  annual_rewards_wei,
  reward_rate_wei_per_sec,
  stdout,                   \* the lines print() wrote so far, in order
  err,                      \* the exception that ended the run, or "none"
  exit_status               \* "running", "0" or "1"

vars == <<pc, prompts, responses, tvl_eth, apy, tvl_wei, annual_rewards_wei,
          reward_rate_wei_per_sec, stdout, err, exit_status>>

Init ==
  /\ pc = "13"
  /\ prompts = <<>>
  /\ responses = <<>>
  /\ tvl_eth = NoFloat
  /\ apy = NoFloat
  /\ tvl_wei = NoInt
  /\ annual_rewards_wei = NoInt
  /\ reward_rate_wei_per_sec = NoInt
  /\ stdout = <<>>
  /\ err = "none"
  /\ exit_status = "running"

\* an exception caught at the top level and the process ending with status 0
RaiseExitZero(e) ==
  /\ pc' = "exit"
  /\ err' = e
  /\ exit_status' = "0"

\* an exception nothing catches: the traceback goes to stderr and the process exits 1
Raise(e) ==
  /\ pc' = "exit"
  /\ err' = e
  /\ exit_status' = "1"

\* a ValueError of line 13 swallowed: the run goes on to the APY prompt
AssignTvlEthSwallowed(s, x) ==
  /\ prompts' = Append(prompts, TVL_PROMPT)
  /\ responses' = Append(responses, s)
  /\ pc' = "14"
  /\ tvl_eth' = (IF x.kind = "err" THEN tvl_eth ELSE x)
  /\ UNCHANGED <<err, exit_status>>

\* line 13: tvl_eth = float(input("expected ETH TVL: ").strip())
AssignTvlEth(s, x) ==
  /\ prompts' = Append(prompts, TVL_PROMPT)
  /\ responses' = Append(responses, s)
  /\ IF x.kind = "err"
       THEN Raise("ValueError") /\ UNCHANGED tvl_eth
       ELSE tvl_eth' = x /\ pc' = "14" /\ UNCHANGED <<err, exit_status>>

ReadTVL ==
  /\ pc = "13"
  /\ \E s \in TvlResponses : AssignTvlEth(s, PyFloat(Strip(s)))
  /\ UNCHANGED <<apy, tvl_wei, annual_rewards_wei, reward_rate_wei_per_sec, stdout>>

\* line 14: apy = parse_percent(input("APY (e.g. 8 or 8%): "))
AssignApy(s, x) ==
  /\ prompts' = Append(prompts, APY_PROMPT)
  /\ responses' = Append(responses, s)
  /\ IF x.kind = "err"
       THEN Raise("ValueError") /\ UNCHANGED apy
       ELSE apy' = x /\ pc' = "16" /\ UNCHANGED <<err, exit_status>>

ReadAPY ==
  /\ pc = "14"
  /\ \E s \in ApyResponses : AssignApy(s, parse_percent(s))
  /\ UNCHANGED <<tvl_eth, tvl_wei, annual_rewards_wei, reward_rate_wei_per_sec, stdout>>

\* line 16: tvl_wei = int(tvl_eth * WEI_PER_ETH)
TvlWeiOf(x) == FloatToInt(FloatTimesInt(x, WEI_PER_ETH))

AssignTvlWei(r) ==
  IF r.err # "none"
    THEN Raise(r.err) /\ UNCHANGED tvl_wei
    ELSE tvl_wei' = r.val /\ pc' = "17" /\ UNCHANGED <<err, exit_status>>

ComputeTvlWei ==
  /\ pc = "16"
  /\ AssignTvlWei(TvlWeiOf(tvl_eth))
  /\ UNCHANGED <<prompts, responses, tvl_eth, apy, annual_rewards_wei,
                 reward_rate_wei_per_sec, stdout>>

\* line 17: annual_rewards_wei = int(tvl_wei * apy)
AnnualRewardsOf(w, a) == FloatToInt(IntTimesFloat(w, a))

AssignAnnualRewards(r) ==
  IF r.err # "none"
    THEN Raise(r.err) /\ UNCHANGED annual_rewards_wei
    ELSE annual_rewards_wei' = r.val /\ pc' = "18" /\ UNCHANGED <<err, exit_status>>

ComputeAnnualRewards ==
  /\ pc = "17"
  /\ AssignAnnualRewards(AnnualRewardsOf(tvl_wei, apy))
  /\ UNCHANGED <<prompts, responses, tvl_eth, apy, tvl_wei, reward_rate_wei_per_sec,
                 stdout>>

\* line 18: reward_rate_wei_per_sec = annual_rewards_wei // SECONDS_PER_YEAR
RewardRateOf(a) == IntFloorDivSmall(a, SECONDS_PER_YEAR)

ComputeRewardRate ==
  /\ pc = "18"
  /\ reward_rate_wei_per_sec' = RewardRateOf(annual_rewards_wei)
  /\ pc' = "20"
  /\ UNCHANGED <<prompts, responses, tvl_eth, apy, tvl_wei, annual_rewards_wei, stdout,
                 err, exit_status>>

\* lines 20-23: the four print() calls
TvlWeiLine(w) == PrintedLine(<<TVL_LABEL, IntStr(w)>>)
AnnualRewardsLine(a) == PrintedLine(<<ANNUAL_LABEL, IntStr(a)>>)
RewardRateLine(r) == PrintedLine(<<RATE_LABEL, IntStr(r)>>)
AddPoolLine(r) == PrintedLine(<<ADDPOOL_OPEN, IntStr(r), ADDPOOL_CLOSE>>)

WriteLine(at, line, then) ==
  /\ pc = at
  /\ stdout' = Append(stdout, line)
  /\ pc' = then
  /\ UNCHANGED <<prompts, responses, tvl_eth, apy, tvl_wei, annual_rewards_wei,
                 reward_rate_wei_per_sec, err, exit_status>>

PrintTvlWei == WriteLine("20", TvlWeiLine(tvl_wei), "21")
PrintAnnualRewards == WriteLine("21", AnnualRewardsLine(annual_rewards_wei), "22")
PrintRewardRate == WriteLine("22", RewardRateLine(reward_rate_wei_per_sec), "23")
PrintAddPool == WriteLine("23", AddPoolLine(reward_rate_wei_per_sec), "return")

\* main() returns and the interpreter exits 0
Return ==
  /\ pc = "return"
  /\ pc' = "exit"
  /\ exit_status' = "0"
  /\ UNCHANGED <<prompts, responses, tvl_eth, apy, tvl_wei, annual_rewards_wei,
                 reward_rate_wei_per_sec, stdout, err>>

Next ==
  \/ ReadTVL
  \/ ReadAPY
  \/ ComputeTvlWei
  \/ ComputeAnnualRewards
  \/ ComputeRewardRate
  \/ PrintTvlWei
  \/ PrintAnnualRewards
  \/ PrintRewardRate
  \/ PrintAddPool
  \/ Return

Spec == Init /\ [][Next]_vars

(***************************************************************************)
(* Vocabulary of the properties.                                           *)
(***************************************************************************)
Finished == pc = "exit"
Succeeded == pc = "exit" /\ err = "none"
BothRead == Len(responses) = 2
BothParsed == tvl_eth # NoFloat /\ apy # NoFloat

\* the two float products of lines 16 and 17, before int() is applied
TvlProduct == FloatTimesInt(tvl_eth, WEI_PER_ETH)
AnnualProduct == IntTimesFloat(tvl_wei, apy)

\* label and value as print() joins them
Labelled(label, i) == label \o <<" ">> \o IntStr(i)

\* Scenario A of the specification: TVL 1000.0, APY "8%"
ScenarioA ==
  /\ BothRead
  /\ responses[1] = <<"1", "0", "0", "0", ".", "0">>
  /\ responses[2] = <<"8", "%">>

\* C1 as the specification states it: Scenario A ends with tvl_wei = 10^21,
\* annual_rewards_wei = 8 * 10^19 and reward_rate_wei_per_sec = 2536783358390576.
C1_ScenarioA_AsStated ==
  (ScenarioA /\ Finished) =>
    /\ tvl_wei = MkInt(FALSE, BigTimesPow10(BigOne, 21))
    /\ annual_rewards_wei = MkInt(FALSE, BigTimesPow10(<<8>>, 19))
    /\ reward_rate_wei_per_sec = MkInt(FALSE, <<2, 5, 3, 6, 7, 8, 3, 3, 5, 8, 3, 9, 0, 5, 7, 6>>)

\* C1 (amended): Scenario A ends without error with tvl_wei = 10^21,
\* annual_rewards_wei = 8 * 10^19 and reward_rate_wei_per_sec = 2536783358701, which is
\* the floor of 8 * 10^19 / 31536000: rate * 31536000 <= 8 * 10^19 < (rate + 1) * 31536000.
C1_ScenarioA ==
  (ScenarioA /\ Finished) =>
    /\ err = "none"
    /\ tvl_wei = MkInt(FALSE, BigTimesPow10(BigOne, 21))
    /\ annual_rewards_wei = MkInt(FALSE, BigTimesPow10(<<8>>, 19))
    /\ reward_rate_wei_per_sec = MkInt(FALSE, <<2, 5, 3, 6, 7, 8, 3, 3, 5, 8, 7, 0, 1>>)
    /\ BigLe(BigMulSmall(<<2, 5, 3, 6, 7, 8, 3, 3, 5, 8, 7, 0, 1>>, SECONDS_PER_YEAR), BigTimesPow10(<<8>>, 19))
    /\ BigLt(BigTimesPow10(<<8>>, 19),
             BigMulSmall(BigAddSmall(<<2, 5, 3, 6, 7, 8, 3, 3, 5, 8, 7, 0, 1>>, 1), SECONDS_PER_YEAR))
    /\ stdout[3] = Labelled(RATE_LABEL, MkInt(FALSE, <<2, 5, 3, 6, 7, 8, 3, 3, 5, 8, 7, 0, 1>>))

C1_ScenarioA_Reached == ScenarioA /\ Succeeded /\ Len(stdout) = 4

\* C2: whenever the rate has been computed from a non-negative annual_rewards_wei, the
\* rate is non-negative and rate * 31536000 <= annual_rewards_wei < (rate + 1) * 31536000,
\* and the rate lines printed carry that rate.
C2_FloorDivision ==
  (reward_rate_wei_per_sec # NoInt /\ ~annual_rewards_wei.neg) =>
    /\ ~reward_rate_wei_per_sec.neg
    /\ BigLe(BigMulSmall(reward_rate_wei_per_sec.mag, SECONDS_PER_YEAR),
             annual_rewards_wei.mag)
    /\ BigLt(annual_rewards_wei.mag,
             BigMulSmall(BigAddSmall(reward_rate_wei_per_sec.mag, 1), SECONDS_PER_YEAR))
    /\ (Len(stdout) >= 3 => stdout[3] = Labelled(RATE_LABEL, reward_rate_wei_per_sec))

\* a rate was printed for a positive annual_rewards_wei that 31536000 does not divide
C2_InexactDivision ==
  /\ Len(stdout) >= 3
  /\ ~annual_rewards_wei.neg
  /\ ~BigIsZero(reward_rate_wei_per_sec.mag)
  /\ BigLt(BigMulSmall(reward_rate_wei_per_sec.mag, SECONDS_PER_YEAR), annual_rewards_wei.mag)

\* t is the finite float p truncated toward zero: |t| <= |p| < |t| + 1, and t is zero or
\* has the sign of p.  With p = (-1)^neg * m * 2^e this is stated by multiplication.
TruncatedTowardZero(p, t) ==
  /\ t.neg => p.neg
  /\ (p.neg /\ ~t.neg) => BigIsZero(t.mag)
  /\ IF p.e >= 0 THEN BigShiftLeft(p.m, p.e) = t.mag
     ELSE /\ BigLe(BigShiftLeft(t.mag, -p.e), p.m)
          /\ BigLt(p.m, BigShiftLeft(BigAddSmall(t.mag, 1), -p.e))

\* C3: tvl_wei is the float product tvl_eth * 10^18 truncated toward zero, and
\* annual_rewards_wei is the float product tvl_wei * apy truncated toward zero, for
\* positive and for negative products, integral or not.
C3_Truncation ==
  /\ pc = "17" => TruncatedTowardZero(TvlProduct, tvl_wei)
  /\ pc = "18" => TruncatedTowardZero(AnnualProduct, annual_rewards_wei)

\* a negative product with a fraction was converted to a non-zero tvl_wei
C3_NegativeFraction ==
  /\ pc = "17"
  /\ tvl_eth.neg
  /\ TvlProduct.e < 0
  /\ ~BigIsZero(tvl_wei.mag)

\* the float 0.08 = 5764607523034235 * 2^-56
EightPercent ==
  [kind |-> "fin", neg |-> FALSE, m |-> <<5, 7, 6, 4, 6, 0, 7, 5, 2, 3, 0, 3, 4, 2, 3, 5>>, e |-> -56]

\* the ways of writing 8 percent: "8" with or without "%" and with blanks around
EightTexts == Decorated(<<"8">>) \cup {<<" ", " ", "8", " ", "%", " ">>}

\* C4: parse_percent returns 0.08 for every way of writing 8 percent, among them "8",
\* "8%" and "  8 % ", and returns for 12.5 with a "%" what it returns for 12.5 without.
C4_PercentSign ==
  (BothRead /\ tvl_eth # NoFloat) =>
    /\ responses[2] \in EightTexts => apy = EightPercent
    /\ responses[2] \in {<<"1", "2", ".", "5">>, <<"1", "2", ".", "5", "%">>}
         => apy = FloatDiv(PyFloat(<<"1", "2", ".", "5">>), Hundred)

C4_PaddedPercent ==
  /\ BothRead
  /\ responses[2] = <<" ", " ", "8", " ", "%", " ">>
  /\ apy = EightPercent

\* The texts float() accepts, stated as a grammar:
\*   [sign] (inf | infinity | nan | digits [. [digits]] [exp] | . digits [exp])
IsMantissa(t) ==
  /\ \A j \in 1..Len(t) : IsDigit(t[j]) \/ t[j] = "."
  /\ \E j \in 1..Len(t) : IsDigit(t[j])
  /\ \A j, k \in 1..Len(t) : (t[j] = "." /\ t[k] = ".") => j = k

IsExponent(t) ==
  \/ t = <<>>
  \/ /\ t[1] \in {"e", "E"}
     /\ \E k \in 2..3 :
          /\ k = 3 <=> (Len(t) >= 2 /\ t[2] \in {"+", "-"})
          /\ k <= Len(t)
          /\ \A j \in k..Len(t) : IsDigit(t[j])

IsUnsignedNumber(b) ==
  \/ b \in {<<"i", "n", "f">>, <<"i", "n", "f", "i", "n", "i", "t", "y">>, <<"n", "a", "n">>}
  \/ \E i \in 1..Len(b) : IsMantissa(SubSeq(b, 1, i)) /\ IsExponent(SubSeq(b, i + 1, Len(b)))

IsNumber(t) ==
  IF Len(t) > 0 /\ t[1] \in {"+", "-"} THEN IsUnsignedNumber(Tail(t)) ELSE IsUnsignedNumber(t)

\* the text left after stripping whitespace and at most one trailing "%"
Residual(s) == IF EndsWith(Strip(s), "%") THEN Strip(DropLast(Strip(s))) ELSE Strip(s)

\* C5: whenever the text left of the APY response after stripping whitespace and at most
\* one trailing "%" is not a number float() accepts, parse_percent raises ValueError and
\* assigns nothing; in particular for "abc", "" and "%".
C5_ParseFailure ==
  (BothRead /\ tvl_eth # NoFloat) =>
    /\ ~IsNumber(Residual(responses[2]))
         => (pc = "exit" /\ err = "ValueError" /\ apy = NoFloat)
    /\ responses[2] \in {<<"a", "b", "c">>, <<>>, <<"%">>} => ~IsNumber(Residual(responses[2]))

C5_BarePercentSign ==
  /\ BothRead
  /\ responses[2] = <<"%">>
  /\ err = "ValueError"
  /\ apy = NoFloat

\* the response to a prompt was read and is not text its parser accepts
TvlUnparsed == Len(responses) >= 1 /\ ~IsNumber(Strip(responses[1]))
ApyUnparsed == BothRead /\ ~IsNumber(Residual(responses[2]))

\* C6: if the response to either prompt cannot be parsed the run has ended with exit
\* status 1 and nothing printed, with each prompt issued once only; and a run that has
\* ended has printed none or all four of the output lines.
C6_AllOrNothing ==
  /\ (TvlUnparsed \/ ApyUnparsed) =>
       /\ pc = "exit"
       /\ exit_status = "1"
       /\ stdout = <<>>
       /\ Len(prompts) = Len(responses)
       /\ \A i, j \in 1..Len(prompts) : prompts[i] = prompts[j] => i = j
  /\ Finished => (Len(stdout) \in {0, 4} /\ exit_status \in {"0", "1"})
  /\ (Finished /\ stdout = <<>>) => exit_status = "1"

\* the APY response was rejected after the TVL response had been accepted
C6_ApyRejected ==
  /\ Finished
  /\ ApyUnparsed
  /\ tvl_eth # NoFloat
  /\ stdout = <<>>
  /\ exit_status = "1"

\* C7 as the specification states it: a successful run has printed exactly the four lines
\* "tvl_wei: <tvl_wei>", "annual_rewards_wei: <annual_rewards_wei>",
\* "rewardRate (wei/sec): <rate>" and "addPool(address(0), <rate>)", the rate of the
\* fourth line immediately followed by the closing parenthesis.
C7_OutputLines_AsStated ==
  Succeeded =>
    /\ Len(stdout) = 4
    /\ stdout[1] = Labelled(TVL_LABEL, tvl_wei)
    /\ stdout[2] = Labelled(ANNUAL_LABEL, annual_rewards_wei)
    /\ stdout[3] = Labelled(RATE_LABEL, reward_rate_wei_per_sec)
    /\ stdout[4] = Labelled(ADDPOOL_OPEN, reward_rate_wei_per_sec) \o <<")">>

\* a negative number was typed at the TVL prompt and the APY response was parsed
NegativeTvl == tvl_eth.kind \in {"fin", "inf"} /\ tvl_eth.neg /\ ~FloatIsZero(tvl_eth)

\* C8 as the specification states it: with a negative TVL and any parsed APY the run
\* raises no error, prints its four lines, and the rate it prints is negative.
C8_NegativeTvl_AsStated ==
  (Finished /\ NegativeTvl /\ BothParsed) =>
    /\ err = "none"
    /\ Len(stdout) = 4
    /\ reward_rate_wei_per_sec.neg

\* C8 (amended): with a negative TVL and a parsed APY whose two float products are finite,
\* the run raises no error and prints its four lines; the rate is negative exactly when
\* annual_rewards_wei is negative, which takes a negative tvl_wei and a positive APY;
\* otherwise (APY zero or negative, or a product that truncates to zero) it is not negative.
C8_NegativeTvl ==
  (Finished /\ NegativeTvl /\ BothParsed /\ IsFinite(TvlProduct) /\ IsFinite(AnnualProduct)) =>
    /\ err = "none"
    /\ Len(stdout) = 4
    /\ reward_rate_wei_per_sec.neg <=> annual_rewards_wei.neg
    /\ annual_rewards_wei.neg => (tvl_wei.neg /\ ~apy.neg /\ ~FloatIsZero(apy))
    /\ reward_rate_wei_per_sec.neg => stdout[3] = Labelled(RATE_LABEL, reward_rate_wei_per_sec)

\* a negative TVL gave a small negative annual_rewards_wei and so the rate -1
C8_NegativeRate ==
  /\ Succeeded
  /\ NegativeTvl
  /\ annual_rewards_wei.neg
  /\ reward_rate_wei_per_sec = MkInt(TRUE, BigOne)

\* what int() of a product that is not finite does to the run
IntRaises(p) ==
  /\ err = (IF IsNaN(p) THEN "ValueError" ELSE "OverflowError")
  /\ exit_status = "1"
  /\ stdout = <<>>

\* C9 as the specification states it: whenever both responses are accepted by the parsers,
\* infinity, NaN and magnitudes beyond the float range included, the run raises no error,
\* prints all four lines and exits 0.
C9_OnlyParseErrors_AsStated ==
  (Finished /\ BothParsed) =>
    /\ err = "none"
    /\ Len(stdout) = 4
    /\ exit_status = "0"

\* C9 (amended): whenever both responses are accepted by the parsers and both float
\* products tvl_eth * 10^18 and tvl_wei * apy are finite, the run raises no error, prints
\* all four lines and exits 0; when a product is infinite or NaN, int() raises
\* OverflowError or ValueError and the run exits 1 having printed nothing.
C9_OnlyParseErrors ==
  (Finished /\ BothParsed) =>
    IF ~IsFinite(TvlProduct) THEN IntRaises(TvlProduct) /\ tvl_wei = NoInt
    ELSE IF ~IsFinite(AnnualProduct) THEN IntRaises(AnnualProduct) /\ annual_rewards_wei = NoInt
    ELSE err = "none" /\ Len(stdout) = 4 /\ exit_status = "0"

\* two finite inputs whose product tvl_wei * apy is beyond the float range
C9_OverflowAfterScaling ==
  /\ Finished
  /\ IsFinite(tvl_eth)
  /\ IsFinite(apy)
  /\ tvl_wei # NoInt
  /\ err = "OverflowError"
  /\ stdout = <<>>

\* C10: the prompts are issued in the order TVL, APY, each at most once; the APY prompt
\* only after the TVL response has been parsed (a malformed TVL ends the run with the TVL
\* prompt alone); nothing is printed before both inputs are parsed and the three values
\* are computed.
C10_StraightLine ==
  /\ prompts \in {<<>>, <<TVL_PROMPT>>, <<TVL_PROMPT, APY_PROMPT>>}
  /\ Len(responses) = Len(prompts)
  /\ Len(prompts) = 2 => tvl_eth # NoFloat
  /\ TvlUnparsed => (Finished /\ prompts = <<TVL_PROMPT>> /\ tvl_eth = NoFloat)
  /\ stdout # <<>> =>
       /\ BothParsed
       /\ Len(prompts) = 2
       /\ tvl_wei # NoInt
       /\ annual_rewards_wei # NoInt
       /\ reward_rate_wei_per_sec # NoInt
  /\ (tvl_wei # NoInt \/ annual_rewards_wei # NoInt \/ reward_rate_wei_per_sec # NoInt)
       => BothParsed

\* a malformed TVL ended the run before the APY prompt
C10_MalformedTvl ==
  /\ Finished
  /\ TvlUnparsed
  /\ prompts = <<TVL_PROMPT>>
  /\ err = "ValueError"

====
